---------------------------- MODULE Spec2Model ----------------------------
(***************************************************************************)
(* ShapeDetector.detectShapes (src/src/main.ts) as a state machine.        *)
(*                                                                         *)
(* One behaviour is one call of detectShapes on one ImageData.  The        *)
(* variables are the locals of detectShapes, findContours, floodFill,      *)
(* orderBoundaryPoints and simplifyContour; pc is the position of the      *)
(* call.  Every loop iteration of the while loops (the flood-fill stack    *)
(* loop, the boundary-ordering loop) and every call/return of the          *)
(* recursive simplifyContour is one step.  NextByCall takes the whole      *)
(* while loop of one floodFill call as one step instead (FillLoop runs the *)
(* same FillIteration), for images of several hundred pixels.              *)
(*                                                                         *)
(* Numbers.  Pixel coordinates are integers.  JavaScript doubles that are  *)
(* not integers are kept in fixed point, the unit being part of the name   *)
(* of the field or operator:                                               *)
(*   area2, center2  : twice the value (the shoelace sum is an integer,    *)
(*                     the centre is a half-integer), exact;               *)
(*   ...Centi        : lengths in hundredths of a pixel, rounded down;     *)
(*   ...Milli        : thousandths (circularity, confidence, cosines);     *)
(*   angles          : whole degrees, rounded down.                        *)
(* Comparisons of distances are made on exact squared distances.           *)
(***************************************************************************)
EXTENDS Integers, Sequences, FiniteSets, TLC

VARIABLES
    width, height, data,        \* imageData: { data, width, height }
    pc,                         \* position of the detectShapes call
    binary,                     \* createBinaryImage's result
    visited, contours, sx, sy,  \* findContours: visited mask, result, loop x, y
    stack, allPoints, boundaryPoints,   \* floodFill locals
    ordered, remaining, current,        \* orderBoundaryPoints locals
    ci,                         \* detectShapes: index of the contour in the for loop
    frames, ret,                \* simplifyContour: call stack and last returned value
    shapes,                     \* detectShapes: the shapes list
    fills                       \* history: allPoints of every floodFill call so far

vars == <<width, height, data, pc, binary, visited, contours, sx, sy, stack,
          allPoints, boundaryPoints, ordered, remaining, current, ci, frames,
          ret, shapes, fills>>

(***************************************************************************)
(* Bounds of the model.                                                    *)
(***************************************************************************)
PolyW == 1          \* the polygons given to simplifyContour and classifyShape
                    \* directly have their points in the columns 0, 2 .. 2 * PolyW
PolyLen == 4        \* and simplifyContour gets up to PolyLen of them
CanvasW == 4        \* the small canvases are CanvasW x CanvasH
CanvasH == 3
GalleryN == 7       \* the notched canvases are GalleryN x GalleryN
DiskRadius == 8     \* radius of the filled disk of the gallery
MinSide == 20       \* sides of the solid squares: MinSide .. MinSide + SideRange
SideRange == 1
MaxMargin == 2      \* light margin around a solid square: 1 .. MaxMargin

(***************************************************************************)
(* Program constants.                                                      *)
(***************************************************************************)
Threshold == 128        \* createBinaryImage: const threshold = 128
NoiseFloor == 10        \* findContours: contour.length > 10
MinContour == 3         \* detectShapes: contour.length < 3 / simplified.length < 3
EpsilonSq == 4          \* detectShapes: simplifyContour(contour, 2.0); 2.0 squared
TriangleMax == 5        \* classifyShape: numVertices <= 5 of the triangle rule
NearLimit == 2          \* orderBoundaryPoints: dist <= 2

Pt(px, py) == [x |-> px, y |-> py]

Abs(n) == IF n < 0 THEN -n ELSE n
Min2(a, b) == IF a < b THEN a ELSE b
Max2(a, b) == IF a > b THEN a ELSE b

(***************************************************************************)
(* Inputs: well-formed ImageData (width, height > 0, data of length        *)
(* width*height*4).  An image is drawn as a set of dark pixel indexes on a *)
(* canvas, and rendered into RGBA bytes with a palette.                    *)
(***************************************************************************)
PixelIndexes(w, h) == 0 .. (w * h - 1)

\* the indexes of the axis-aligned rectangle spanned by pixels p and q
Rect(w, p, q) ==
    LET x0 == Min2(p % w, q % w)
        x1 == Max2(p % w, q % w)
        y0 == Min2(p \div w, q \div w)
        y1 == Max2(p \div w, q \div w)
    IN  { yy * w + xx : xx \in x0 .. x1, yy \in y0 .. y1 }

Image(w, h, dark) == [w |-> w, h |-> h, dark |-> dark]

\* a light canvas with one dark rectangle and one more dark pixel
SpeckleImages(w, h) ==
    { Image(w, h, Rect(w, p, q) \cup {d}) :
        p \in PixelIndexes(w, h), q \in PixelIndexes(w, h), d \in PixelIndexes(w, h) }

\* a dark canvas with (at most) two light pixels
PunchedImages(w, h) ==
    { Image(w, h, PixelIndexes(w, h) \ {p, q}) :
        p \in PixelIndexes(w, h), q \in PixelIndexes(w, h) }

\* a dark canvas with a light pixel in the top row and one more light pixel
NotchedImages(w, h) ==
    { Image(w, h, PixelIndexes(w, h) \ {p, q}) :
        p \in 0 .. (w - 1), q \in PixelIndexes(w, h) }

\* a filled disk of radius r centred in a light canvas with a margin of one
DiskImage(r) ==
    LET w == 2 * r + 3
        c == r + 1
    IN  Image(w, w, { i \in PixelIndexes(w, w) :
                        ((i % w) - c) * ((i % w) - c) + ((i \div w) - c) * ((i \div w) - c) <= r * r })

\* a solid s x s square with a light margin of m pixels on every side
SquareImage(s, m) ==
    LET w == s + 2 * m
    IN  Image(w, w, Rect(w, m * w + m, (m + s - 1) * w + (m + s - 1)))

\* two solid s x s squares with a light margin of m pixels: the second one
\* gap light columns to the right of the first, and dy rows lower
TwoSquaresImage(s, m, gap, dy) ==
    LET w == 2 * s + 2 * m + gap
        h == s + 2 * m + dy
    IN  Image(w, h, Rect(w, m * w + m, (m + s - 1) * w + (m + s - 1))
                    \cup Rect(w, (m + dy) * w + (m + s + gap),
                                 (m + dy + s - 1) * w + (m + 2 * s + gap - 1)))

SmallImages == SpeckleImages(CanvasW, CanvasH) \cup PunchedImages(CanvasW, CanvasH)

GalleryImages ==
    NotchedImages(GalleryN, GalleryN) \cup {DiskImage(DiskRadius)}
        \cup PunchedImages(CanvasW + 1, CanvasH + 1)

SquareImages ==
    { SquareImage(s, m) : s \in MinSide .. (MinSide + SideRange), m \in 1 .. MaxMargin }

\* side by side (dy = 0) or diagonal (dy = side + gap: corner to corner)
TwoSquaresImages ==
    { TwoSquaresImage(MinSide, 1, gap, dy) :
        gap \in 1 .. MaxMargin, dy \in {0, MinSide + 1} }

\* RGBA of a dark and of a light pixel
Opaque == [dark |-> <<0, 0, 0, 255>>, light |-> <<255, 255, 255, 255>>]
\* the two sides of the threshold: 127+128+128 = 383 and 128+128+128 = 384
Edge == [dark |-> <<127, 128, 128, 0>>, light |-> <<128, 128, 128, 255>>]

Render(img, pal) ==
    [i \in 0 .. (4 * img.w * img.h - 1) |->
        IF (i \div 4) \in img.dark THEN pal.dark[(i % 4) + 1] ELSE pal.light[(i % 4) + 1]]

(***************************************************************************)
(* createBinaryImage                                                       *)
(***************************************************************************)
\* createBinaryImage, mutated: a fully transparent pixel is never dark
createBinaryImageAlpha(d, w, h) ==
    [index \in PixelIndexes(w, h) |->
        /\ d[4 * index] + d[4 * index + 1] + d[4 * index + 2] < 3 * Threshold
        /\ d[4 * index + 3] # 0]

\* gray = (r + g + b) / 3; binary[index] = gray < threshold
createBinaryImage(d, w, h) ==
    [index \in PixelIndexes(w, h) |->
        d[4 * index] + d[4 * index + 1] + d[4 * index + 2] < 3 * Threshold]

(***************************************************************************)
(* floodFill                                                               *)
(***************************************************************************)
InImage(px, py) == px >= 0 /\ px < width /\ py >= 0 /\ py < height

\* the 8 neighbour offsets in the order of the two nested for loops
\* (dy = -1..1 outer, dx = -1..1 inner, (0,0) skipped)
NeighbourOffsets ==
    << <<-1, -1>>, <<0, -1>>, <<1, -1>>, <<-1, 0>>, <<1, 0>>, <<-1, 1>>, <<0, 1>>, <<1, 1>> >>

\* isBoundary: some 8-neighbour is outside the image or not dark
isBoundary(px, py) ==
    \E k \in 1 .. 8 :
        LET nx == px + NeighbourOffsets[k][1]
            ny == py + NeighbourOffsets[k][2]
        IN  \/ ~InImage(nx, ny)
            \/ ~binary[ny * width + nx]

\* the stack.push calls, mutated: the 4 edge neighbours only
PushNeighbours4(px, py) ==
    <<Pt(px, py - 1), Pt(px - 1, py), Pt(px + 1, py), Pt(px, py + 1)>>

\* the 8 stack.push calls of one iteration
PushNeighbours(px, py) ==
    [k \in 1 .. 8 |-> Pt(px + NeighbourOffsets[k][1], py + NeighbourOffsets[k][2])]

\* the skip test of the loop: outside the image, visited, or not dark
SkipPixel(vis, px, py) ==
    \/ ~InImage(px, py)
    \/ vis[py * width + px]
    \/ ~binary[py * width + px]

\* One iteration of the while (stack.length > 0) loop on the locals of
\* floodFill, st = [stack, visited, allPoints, boundaryPoints], stack not empty.
FillIteration(st) ==
    LET p == st.stack[Len(st.stack)]
        rest == SubSeq(st.stack, 1, Len(st.stack) - 1)
    IN  IF SkipPixel(st.visited, p.x, p.y)
        THEN [st EXCEPT !.stack = rest]
        ELSE [stack |-> rest \o PushNeighbours(p.x, p.y),
              visited |-> [st.visited EXCEPT ![p.y * width + p.x] = TRUE],
              allPoints |-> Append(st.allPoints, p),
              boundaryPoints |-> IF isBoundary(p.x, p.y)
                                 THEN Append(st.boundaryPoints, p)
                                 ELSE st.boundaryPoints]

\* The while loop from st until the stack is empty, n bounding the number of
\* iterations left (the first half of them, then the rest).
RECURSIVE FillLoop(_, _)
FillLoop(st, n) ==
    IF st.stack = <<>> \/ n = 0 THEN st
    ELSE IF n = 1 THEN FillIteration(st)
    ELSE FillLoop(FillLoop(st, n \div 2), n - (n \div 2))

(***************************************************************************)
(* orderBoundaryPoints                                                     *)
(***************************************************************************)
\* Math.abs(x - current.x) + Math.abs(y - current.y)
Manhattan(p, q) == Abs(p.x - q.x) + Abs(p.y - q.y)

\* the square of Math.sqrt(Math.pow(x - current.x, 2) + Math.pow(y - current.y, 2))
DistSq(p, q) == (p.x - q.x) * (p.x - q.x) + (p.y - q.y) * (p.y - q.y)

\* The first for loop over remaining (a Set iterates in insertion order):
\* dist < minDist && dist <= 2.  best is the index in rem of nearest, 0 for
\* null (minDist is then Infinity).
RECURSIVE NearestManhattan(_, _, _, _)
NearestManhattan(rem, cur, i, best) ==
    IF i > Len(rem) THEN best
    ELSE LET dist == Manhattan(rem[i], cur)
         IN  IF (best = 0 \/ dist < Manhattan(rem[best], cur)) /\ dist <= NearLimit
             THEN NearestManhattan(rem, cur, i + 1, i)
             ELSE NearestManhattan(rem, cur, i + 1, best)

\* The fallback loop: dist < minDist on Euclidean distances, minDist still
\* Infinity on entry.
RECURSIVE NearestEuclid(_, _, _, _)
NearestEuclid(rem, cur, i, best) ==
    IF i > Len(rem) THEN best
    ELSE IF best = 0 \/ DistSq(rem[i], cur) < DistSq(rem[best], cur)
         THEN NearestEuclid(rem, cur, i + 1, i)
         ELSE NearestEuclid(rem, cur, i + 1, best)

\* nearest, mutated: without the Euclidean fallback
NearestNoFallback(rem, cur) == NearestManhattan(rem, cur, 1, 0)

\* nearest of one iteration of the while loop, as an index of rem (0: null)
Nearest(rem, cur) ==
    LET near == NearestManhattan(rem, cur, 1, 0)
    IN  IF near # 0 THEN near ELSE NearestEuclid(rem, cur, 1, 0)

\* remaining.delete(...): the sequence without its k-th element
Delete(rem, k) == SubSeq(rem, 1, k - 1) \o SubSeq(rem, k + 1, Len(rem))

(***************************************************************************)
(* The call: Init and the steps up to the end of findContours.             *)
(***************************************************************************)
InitWith(images, palettes) ==
    /\ \E img \in images : \E pal \in palettes :
          /\ width = img.w
          /\ height = img.h
          /\ data = Render(img, pal)
    /\ pc = "start"
    /\ binary = <<>>
    /\ visited = <<>>
    /\ contours = <<>>
    /\ sx = 0
    /\ sy = 0
    /\ stack = <<>>
    /\ allPoints = <<>>
    /\ boundaryPoints = <<>>
    /\ ordered = <<>>
    /\ remaining = <<>>
    /\ current = Pt(0, 0)
    /\ ci = 0
    /\ frames = <<>>
    /\ ret = <<>>
    /\ shapes = <<>>
    /\ fills = <<>>

Init == InitWith(SmallImages, {Opaque, Edge})

\* detectShapes lines 50-57: binary = createBinaryImage(...), then findContours
\* starts with visited all false, contours empty, y = 0, x = 0
Binarize ==
    /\ pc = "start"
    /\ binary' = createBinaryImage(data, width, height)
    /\ visited' = [index \in PixelIndexes(width, height) |-> FALSE]
    /\ contours' = <<>>
    /\ sx' = 0
    /\ sy' = 0
    /\ pc' = "scan"
    /\ UNCHANGED <<width, height, data, stack, allPoints, boundaryPoints, ordered,
                   remaining, current, ci, frames, ret, shapes, fills>>

\* x++ of the inner for loop, y++ of the outer one; after the last pixel
\* findContours returns and the for loop of detectShapes starts
ScanAdvance ==
    /\ sx' = IF sx + 1 < width THEN sx + 1 ELSE 0
    /\ sy' = IF sx + 1 < width THEN sy ELSE sy + 1
    /\ pc' = IF sx + 1 < width \/ sy + 1 < height THEN "scan" ELSE "detect"
    /\ ci' = IF sx + 1 < width \/ sy + 1 < height THEN ci ELSE 1

\* one iteration of the inner for loop of findContours, up to the call of floodFill
Scan ==
    /\ pc = "scan"
    /\ LET index == sy * width + sx
       IN  IF binary[index] /\ ~visited[index]
           THEN /\ stack' = <<Pt(sx, sy)>>
                /\ allPoints' = <<>>
                /\ boundaryPoints' = <<>>
                /\ pc' = "fill"
                /\ UNCHANGED <<sx, sy, ci>>
           ELSE /\ ScanAdvance
                /\ UNCHANGED <<stack, allPoints, boundaryPoints>>
    /\ UNCHANGED <<width, height, data, binary, visited, contours, ordered,
                   remaining, current, frames, ret, shapes, fills>>

\* one iteration of the while (stack.length > 0) loop of floodFill
FloodFillStep ==
    /\ pc = "fill"
    /\ stack # <<>>
    /\ LET st == FillIteration([stack |-> stack, visited |-> visited,
                                 allPoints |-> allPoints,
                                 boundaryPoints |-> boundaryPoints])
       IN  /\ stack' = st.stack
           /\ visited' = st.visited
           /\ allPoints' = st.allPoints
           /\ boundaryPoints' = st.boundaryPoints
    /\ UNCHANGED <<width, height, data, pc, binary, contours, sx, sy, ordered,
                   remaining, current, ci, frames, ret, shapes, fills>>

\* The iterations of the for loops of findContours from (sx, sy) up to the
\* next call of floodFill, and the whole while loop of that call; without a
\* dark unvisited pixel left, the for loops run to their end.
FloodFillCall ==
    /\ pc = "scan"
    /\ LET seeds == { i \in PixelIndexes(width, height) :
                        i >= sy * width + sx /\ binary[i] /\ ~visited[i] }
       IN  IF seeds = {}
           THEN /\ sx' = 0
                /\ sy' = height
                /\ ci' = 1
                /\ pc' = "detect"
                /\ UNCHANGED <<visited, stack, allPoints, boundaryPoints>>
           ELSE LET index == CHOOSE i \in seeds : \A j \in seeds : i <= j
                    st == FillLoop([stack |-> <<Pt(index % width, index \div width)>>,
                                    visited |-> visited,
                                    allPoints |-> <<>>,
                                    boundaryPoints |-> <<>>],
                                   8 * width * height + 1)
                IN  /\ sx' = index % width
                    /\ sy' = index \div width
                    /\ stack' = st.stack
                    /\ visited' = st.visited
                    /\ allPoints' = st.allPoints
                    /\ boundaryPoints' = st.boundaryPoints
                    /\ pc' = "fill"
                    /\ UNCHANGED ci
    /\ UNCHANGED <<width, height, data, binary, contours, ordered, remaining,
                   current, frames, ret, shapes, fills>>

\* if (contour.length > 10), mutated: >= instead of >
PassesNoiseFilterGe(c) == Len(c) >= NoiseFloor

\* if (contour.length > 10), mutated: the length of the full pixel set
PassesNoiseFilterAllPoints(c) == Len(allPoints) > NoiseFloor

\* if (contour.length > 10)
PassesNoiseFilter(c) == Len(c) > NoiseFloor

\* floodFill has returned contour c to findContours: the noise filter, and
\* the loops go on
ReturnContour(c) ==
    /\ contours' = IF PassesNoiseFilter(c) THEN Append(contours, c) ELSE contours
    /\ fills' = Append(fills, allPoints)
    /\ ScanAdvance
    /\ stack' = <<>>
    /\ allPoints' = <<>>
    /\ boundaryPoints' = <<>>
    /\ ordered' = <<>>
    /\ remaining' = <<>>
    /\ UNCHANGED <<width, height, data, binary, visited, current, frames, ret, shapes>>

\* the stack is empty: floodFill lines 186-190, and the first lines of
\* orderBoundaryPoints
FloodFillEnd ==
    /\ pc = "fill"
    /\ stack = <<>>
    /\ IF Len(boundaryPoints) > 0
       THEN /\ ordered' = <<boundaryPoints[1]>>
            /\ remaining' = Tail(boundaryPoints)
            /\ current' = boundaryPoints[1]
            /\ pc' = "order"
            /\ UNCHANGED <<width, height, data, binary, visited, contours, sx, sy,
                           stack, allPoints, boundaryPoints, ci, frames, ret,
                           shapes, fills>>
       ELSE ReturnContour(allPoints)

\* one iteration of the while (remaining.size > 0) loop of orderBoundaryPoints
OrderStep ==
    /\ pc = "order"
    /\ Len(remaining) > 0
    /\ LET k == Nearest(remaining, current)
       IN  IF k # 0
           THEN /\ ordered' = Append(ordered, remaining[k])
                /\ remaining' = Delete(remaining, k)
                /\ current' = remaining[k]
                /\ UNCHANGED <<width, height, data, pc, binary, visited, contours,
                               sx, sy, stack, allPoints, boundaryPoints, ci, frames,
                               ret, shapes, fills>>
           ELSE \* break
                ReturnContour(IF Len(ordered) > 0 THEN ordered ELSE allPoints)

\* the loop is over: return ordered.length > 0 ? ordered : allPoints
OrderEnd ==
    /\ pc = "order"
    /\ Len(remaining) = 0
    /\ ReturnContour(IF Len(ordered) > 0 THEN ordered ELSE allPoints)

(***************************************************************************)
(* simplifyContour and pointToLineDistance                                 *)
(***************************************************************************)
\* lenSq = C * C + D * D
LenSq(lineStart, lineEnd) == DistSq(lineEnd, lineStart)

\* The square of pointToLineDistance(point, lineStart, lineEnd), as a
\* numerator over the denominator DistDen(lineStart, lineEnd): param < 0
\* (dot < 0, or lenSq = 0 where param stays -1) is the distance to lineStart,
\* param > 1 (dot > lenSq) the distance to lineEnd, and otherwise the
\* distance to the projection, (A*D - B*C)^2 / lenSq.
DistDen(lineStart, lineEnd) ==
    IF LenSq(lineStart, lineEnd) = 0 THEN 1 ELSE LenSq(lineStart, lineEnd)

pointToLineDistance(point, lineStart, lineEnd) ==
    LET A == point.x - lineStart.x
        B == point.y - lineStart.y
        C == lineEnd.x - lineStart.x
        D == lineEnd.y - lineStart.y
        dot == A * C + B * D
        lenSq == C * C + D * D
    IN  IF lenSq = 0 THEN DistSq(point, lineStart)
        ELSE IF dot < 0 THEN DistSq(point, lineStart) * lenSq
        ELSE IF dot > lenSq THEN DistSq(point, lineEnd) * lenSq
        ELSE (A * D - B * C) * (A * D - B * C)

\* The for loop of simplifyContour over c[lo+1 .. hi-1] (c[lo] is first,
\* c[hi] is last): dist > maxDist keeps the first maximum.  The result is
\* <<maxDist (numerator), maxIndex (an index of c, lo where the code has 0)>>.
RECURSIVE MaxDistScan(_, _, _, _, _, _)
MaxDistScan(c, lo, hi, i, maxDist, maxIndex) ==
    IF i > hi - 1 THEN <<maxDist, maxIndex>>
    ELSE LET dist == pointToLineDistance(c[i], c[lo], c[hi])
         IN  IF dist > maxDist
             THEN MaxDistScan(c, lo, hi, i + 1, dist, i)
             ELSE MaxDistScan(c, lo, hi, i + 1, maxDist, maxIndex)

\* maxDist > epsilon
ExceedsEpsilon(maxDist, lineStart, lineEnd) ==
    maxDist > EpsilonSq * DistDen(lineStart, lineEnd)

\* a call simplifyContour(c.slice(lo, hi + 1), epsilon) (indexes from 1)
Frame(lo, hi) == [lo |-> lo, hi |-> hi, st |-> "call", mi |-> 0, left |-> <<>>]

\* the recursive calls: simplifyContour(contour.slice(0, maxIndex + 1), epsilon)
\* and simplifyContour(contour.slice(maxIndex), epsilon), f the calling frame
LeftCall(f, maxIndex) == Frame(f.lo, maxIndex)

\* the second recursive call, mutated: contour.slice(0) instead of slice(maxIndex)
RightCallWhole(f) == Frame(f.lo, f.hi)

RightCall(f) == Frame(f.mi, f.hi)

\* the splice, mutated: [...left, ...right], the split point kept twice
SpliceKeepBoth(left, right) == left \o right

\* [...left.slice(0, -1), ...right]
Splice(left, right) == SubSeq(left, 1, Len(left) - 1) \o right

(***************************************************************************)
(* Arithmetic of the classifier                                            *)
(***************************************************************************)
\* the integer square root, by bisection: lo*lo <= n < hi*hi
RECURSIVE IsqrtIn(_, _, _)
IsqrtIn(n, lo, hi) ==
    IF hi - lo <= 1 THEN lo
    ELSE LET mid == (lo + hi) \div 2
         IN  IF mid * mid <= n THEN IsqrtIn(n, mid, hi) ELSE IsqrtIn(n, lo, mid)

Isqrt(n) == IsqrtIn(n, 0, Min2(n + 1, 46341))

\* Math.sqrt(dx * dx + dy * dy) in hundredths
LengthCenti(p, q) == Isqrt(10000 * DistSq(p, q))

\* the cyclic successor index (i + 1) % n, and predecessor (i - 1 + n) % n,
\* for sequences indexed from 1
NextIdx(i, n) == (i % n) + 1
PrevIdx(i, n) == ((i - 2 + n) % n) + 1

RECURSIVE SumTo(_, _)
SumTo(f, n) == IF n = 0 THEN 0 ELSE f[n] + SumTo(f, n - 1)

\* calculateBounds, mutated: width and height as min - max + 1
calculateBoundsSwapped(points) ==
    LET xs == { points[i].x : i \in 1 .. Len(points) }
        ys == { points[i].y : i \in 1 .. Len(points) }
        minX == CHOOSE v \in xs : \A u \in xs : v <= u
        maxX == CHOOSE v \in xs : \A u \in xs : v >= u
        minY == CHOOSE v \in ys : \A u \in ys : v <= u
        maxY == CHOOSE v \in ys : \A u \in ys : v >= u
    IN  [minX |-> minX, minY |-> minY,
         width |-> minX - maxX + 1, height |-> minY - maxY + 1]

\* calculateBounds
calculateBounds(points) ==
    LET xs == { points[i].x : i \in 1 .. Len(points) }
        ys == { points[i].y : i \in 1 .. Len(points) }
        minX == CHOOSE v \in xs : \A u \in xs : v <= u
        maxX == CHOOSE v \in xs : \A u \in xs : v >= u
        minY == CHOOSE v \in ys : \A u \in ys : v <= u
        maxY == CHOOSE v \in ys : \A u \in ys : v >= u
    IN  [minX |-> minX, minY |-> minY,
         width |-> maxX - minX + 1, height |-> maxY - minY + 1]

\* calculateArea, doubled: Math.abs(area) before the division by 2
calculateArea2(points) ==
    LET n == Len(points)
        term == [i \in 1 .. n |->
                    points[i].x * points[NextIdx(i, n)].y
                    - points[NextIdx(i, n)].x * points[i].y]
    IN  Abs(SumTo(term, n))

\* calculateEdgeLengths, squared (exact)
calculateEdgeLengthsSq(points) ==
    [i \in 1 .. Len(points) |-> DistSq(points[NextIdx(i, Len(points))], points[i])]

\* calculatePerimeter, in hundredths
calculatePerimeterCenti(points) ==
    SumTo([i \in 1 .. Len(points) |->
              LengthCenti(points[NextIdx(i, Len(points))], points[i])], Len(points))

\* circularity = (4 * Math.PI * area) / (perimeter * perimeter), in thousandths
\* (62832 = 2 * pi * 10^4; the area is area2 / 2).  -1 stands for NaN
\* (perimeter 0), of which every comparison is false.
circularityMilli(area2, perimeterCenti) ==
    LET q == (perimeterCenti * perimeterCenti) \div 1000
    IN  IF q = 0 THEN -1 ELSE (62832 * area2) \div q

\* the dot product and the product of the squared magnitudes of v1 = prev - curr
\* and v2 = next - curr at vertex i
VertexDot(points, i) ==
    LET n == Len(points)
        prev == points[PrevIdx(i, n)]
        curr == points[i]
        next == points[NextIdx(i, n)]
    IN  (prev.x - curr.x) * (next.x - curr.x) + (prev.y - curr.y) * (next.y - curr.y)

VertexMagSq(points, i) ==
    LET n == Len(points)
    IN  DistSq(points[PrevIdx(i, n)], points[i]) * DistSq(points[NextIdx(i, n)], points[i])

\* cos(k degrees) in thousandths, rounded down, k in 0..180
CosTable ==
    <<  1000, 999, 999, 998, 997, 996, 994, 992, 990, 987, 984, 981, 978,
        974, 970, 965, 961, 956, 951, 945, 939, 933, 927, 920, 913, 906,
        898, 891, 882, 874, 866, 857, 848, 838, 829, 819, 809, 798, 788,
        777, 766, 754, 743, 731, 719, 707, 694, 681, 669, 656, 642, 629,
        615, 601, 587, 573, 559, 544, 529, 515, 500, 484, 469, 453, 438,
        422, 406, 390, 374, 358, 342, 325, 309, 292, 275, 258, 241, 224,
        207, 190, 173, 156, 139, 121, 104, 87, 69, 52, 34, 17, 0 >>

CosMilliOf(k) == IF k <= 90 THEN CosTable[k + 1] ELSE -CosTable[181 - k]

\* cosAngle = dot / (mag1 * mag2), clamped to [-1, 1], in thousandths
CosMilli(dot, magSq) ==
    LET raw == IF magSq <= 200000
               THEN (dot * 100000) \div Isqrt(magSq * 10000)
               ELSE (dot * 10000) \div Isqrt(magSq * 100)
    IN  Max2(-1000, Min2(1000, raw))

\* Math.acos(...) * (180 / Math.PI), in whole degrees rounded down
AngleDeg(cosMilli) == Cardinality({ k \in 1 .. 180 : CosMilliOf(k) >= cosMilli })

\* calculateAngles
calculateAngles(points) ==
    [i \in 1 .. Len(points) |->
        AngleDeg(CosMilli(VertexDot(points, i), VertexMagSq(points, i)))]

\* isTriangle, mutated: without the test points.length !== 3
isTriangleAnyLength(points) ==
    \A i \in 1 .. Len(points) :
        /\ calculateAngles(points)[i] >= 20
        /\ calculateAngles(points)[i] < 160

\* isTriangle: minAngle > 20 && maxAngle < 160 (no angle between lattice
\* vectors is 20 or 160 degrees, so the whole degrees decide)
isTriangle(points) ==
    IF Len(points) # 3 THEN FALSE
    ELSE \A i \in 1 .. 3 :
            /\ calculateAngles(points)[i] >= 20
            /\ calculateAngles(points)[i] < 160

\* isRectangle, mutated: every angle must be a right angle
isRectangleAll(points) ==
    IF Len(points) < 4 THEN FALSE
    ELSE \A i \in 1 .. Len(points) :
            4 * VertexDot(points, i) * VertexDot(points, i) < VertexMagSq(points, i)

\* isRectangle: at least 2 angles with Math.abs(angle - 90) < 30, that is
\* |cos| < 1/2, that is 4 * dot^2 < mag1^2 * mag2^2 (exact)
isRectangle(points) ==
    IF Len(points) < 4 THEN FALSE
    ELSE Cardinality({ i \in 1 .. Len(points) :
            4 * VertexDot(points, i) * VertexDot(points, i) < VertexMagSq(points, i) }) >= 2

\* isPentagon: stdDev / avgLength < 0.3, that is n * sum(len^2) < 1.09 * (sum len)^2
isPentagon(points) ==
    IF Len(points) < 5 THEN FALSE
    ELSE LET n == Len(points)
             p == calculatePerimeterCenti(points)
         IN  1000 * n * SumTo(calculateEdgeLengthsSq(points), n) < 109 * ((p * p) \div 1000)

\* isStar: at least points.length / 2 consecutive angle pairs differ by more than 30
isStar(points) ==
    IF Len(points) < 8 THEN FALSE
    ELSE LET angles == calculateAngles(points)
             alternating == Cardinality({ i \in 1 .. (Len(points) - 1) :
                                Abs(angles[i] - angles[i + 1]) > 30 })
         IN  2 * alternating >= Len(points)

(***************************************************************************)
(* classifyShape: the shape, or <<>> for null.  confidenceMilli is         *)
(* Math.min(1.0, confidence) in thousandths.                               *)
(***************************************************************************)
NoShape == <<>>

\* the returned object, mutated: the confidence as a percentage
ShapePercent(type, confidenceMilli, bounds, area2) ==
    [type |-> type,
     confidenceMilli |-> 100 * Min2(1000, confidenceMilli),
     boundingBox |-> [x |-> bounds.minX, y |-> bounds.minY,
                      width |-> bounds.width, height |-> bounds.height],
     center2 |-> [x |-> 2 * bounds.minX + bounds.width,
                  y |-> 2 * bounds.minY + bounds.height],
     area2 |-> area2]

Shape(type, confidenceMilli, bounds, area2) ==
    [type |-> type,
     confidenceMilli |-> Min2(1000, confidenceMilli),
     boundingBox |-> [x |-> bounds.minX, y |-> bounds.minY,
                      width |-> bounds.width, height |-> bounds.height],
     center2 |-> [x |-> 2 * bounds.minX + bounds.width,
                  y |-> 2 * bounds.minY + bounds.height],
     area2 |-> area2]

\* classifyShape, mutated: the pentagon rule tried before the rectangle rule
classifyShapePentagonFirst(simplified, originalContour) ==
    LET numVertices == Len(simplified)
        bounds == calculateBounds(originalContour)
        area2 == calculateArea2(originalContour)
        circularity == circularityMilli(area2, calculatePerimeterCenti(simplified))
    IN  IF circularity > 850 /\ numVertices >= 8
        THEN Shape("circle", Min2(950, 700 + circularity \div 4), bounds, area2)
        ELSE IF numVertices = 3
                \/ (numVertices >= 3 /\ numVertices <= 5 /\ isTriangle(simplified))
        THEN Shape("triangle", 850 + (IF numVertices = 3 THEN 100 ELSE -100), bounds, area2)
        ELSE IF numVertices = 5
                \/ (numVertices >= 5 /\ numVertices <= 7 /\ isPentagon(simplified))
        THEN Shape("pentagon", 850 + (IF numVertices = 5 THEN 100 ELSE -100), bounds, area2)
        ELSE IF numVertices = 4
                \/ (numVertices >= 4 /\ numVertices <= 6 /\ isRectangle(simplified))
        THEN Shape("rectangle", 900 + (IF numVertices = 4 THEN 80 ELSE -100), bounds, area2)
        ELSE IF numVertices >= 8 /\ numVertices <= 12 /\ isStar(simplified)
        THEN Shape("star", 800, bounds, area2)
        ELSE IF numVertices >= 6 /\ numVertices <= 8
        THEN Shape("pentagon", 750, bounds, area2)
        ELSE NoShape

classifyShape(simplified, originalContour) ==
    LET numVertices == Len(simplified)
        bounds == calculateBounds(originalContour)
        area2 == calculateArea2(originalContour)
        circularity == circularityMilli(area2, calculatePerimeterCenti(simplified))
    IN  IF circularity > 850 /\ numVertices >= 8
        THEN Shape("circle", Min2(950, 700 + circularity \div 4), bounds, area2)
        ELSE IF numVertices = 3
                \/ (numVertices >= 3 /\ numVertices <= 5 /\ isTriangle(simplified))
        THEN Shape("triangle", 850 + (IF numVertices = 3 THEN 100 ELSE -100), bounds, area2)
        ELSE IF numVertices = 4
                \/ (numVertices >= 4 /\ numVertices <= 6 /\ isRectangle(simplified))
        THEN Shape("rectangle", 900 + (IF numVertices = 4 THEN 80 ELSE -100), bounds, area2)
        ELSE IF numVertices = 5
                \/ (numVertices >= 5 /\ numVertices <= 7 /\ isPentagon(simplified))
        THEN Shape("pentagon", 850 + (IF numVertices = 5 THEN 100 ELSE -100), bounds, area2)
        ELSE IF numVertices >= 8 /\ numVertices <= 12 /\ isStar(simplified)
        THEN Shape("star", 800, bounds, area2)
        ELSE IF numVertices >= 6 /\ numVertices <= 8
        THEN Shape("pentagon", 750, bounds, area2)
        ELSE NoShape

(***************************************************************************)
(* The for loop of detectShapes                                            *)
(***************************************************************************)
\* the head of one iteration: contour.length < 3 continues, otherwise
\* simplifyContour(contour, 2.0) is called
DetectStep ==
    /\ pc = "detect"
    /\ ci <= Len(contours)
    /\ IF Len(contours[ci]) < MinContour
       THEN /\ ci' = ci + 1
            /\ UNCHANGED <<pc, frames>>
       ELSE /\ frames' = <<Frame(1, Len(contours[ci]))>>
            /\ pc' = "simplify"
            /\ UNCHANGED ci
    /\ UNCHANGED <<width, height, data, binary, visited, contours, sx, sy, stack,
                   allPoints, boundaryPoints, ordered, remaining, current, ret,
                   shapes, fills>>

\* one step of simplifyContour: the body of a call up to its first recursive
\* call or its return, the second recursive call, or the return of the splice
SimplifyStep ==
    /\ pc = "simplify"
    /\ frames # <<>>
    /\ LET c == contours[ci]
           d == Len(frames)
           f == frames[d]
           below == SubSeq(frames, 1, d - 1)
           scan == MaxDistScan(c, f.lo, f.hi, f.lo + 1, 0, f.lo)
       IN  CASE f.st = "call" /\ f.hi - f.lo + 1 <= 2 ->
                    /\ ret' = SubSeq(c, f.lo, f.hi)
                    /\ frames' = below
              [] f.st = "call" /\ f.hi - f.lo + 1 > 2
                    /\ ExceedsEpsilon(scan[1], c[f.lo], c[f.hi]) ->
                    /\ frames' = Append(Append(below, [f EXCEPT !.st = "left", !.mi = scan[2]]),
                                        LeftCall(f, scan[2]))
                    /\ UNCHANGED ret
              [] f.st = "call" /\ f.hi - f.lo + 1 > 2
                    /\ ~ExceedsEpsilon(scan[1], c[f.lo], c[f.hi]) ->
                    /\ ret' = <<c[f.lo], c[f.hi]>>
                    /\ frames' = below
              [] f.st = "left" ->
                    /\ frames' = Append(Append(below, [f EXCEPT !.st = "right", !.left = ret]),
                                        RightCall(f))
                    /\ UNCHANGED ret
              [] f.st = "right" ->
                    /\ ret' = Splice(f.left, ret)
                    /\ frames' = below
    /\ UNCHANGED <<width, height, data, pc, binary, visited, contours, sx, sy, stack,
                   allPoints, boundaryPoints, ordered, remaining, current, ci,
                   shapes, fills>>

\* shapes.push, mutated: a shape of a type already in the list is not pushed
PushShapeDedup(list, simplified, contour) ==
    IF Len(simplified) < MinContour THEN list
    ELSE IF classifyShape(simplified, contour) = NoShape THEN list
    ELSE IF \E i \in 1 .. Len(list) : list[i].type = classifyShape(simplified, contour).type
    THEN list
    ELSE Append(list, classifyShape(simplified, contour))

\* the shapes list after the rest of the iteration: simplified.length < 3
\* continues, a null shapeInfo is not pushed
PushShape(list, simplified, contour) ==
    IF Len(simplified) < MinContour THEN list
    ELSE IF classifyShape(simplified, contour) = NoShape THEN list
    ELSE Append(list, classifyShape(simplified, contour))

\* simplifyContour has returned: the rest of the iteration
ClassifyStep ==
    /\ pc = "simplify"
    /\ frames = <<>>
    /\ shapes' = PushShape(shapes, ret, contours[ci])
    /\ ci' = ci + 1
    /\ ret' = <<>>
    /\ pc' = "detect"
    /\ UNCHANGED <<width, height, data, binary, visited, contours, sx, sy, stack,
                   allPoints, boundaryPoints, ordered, remaining, current, frames,
                   fills>>

\* the for loop is over: detectShapes returns { shapes, ... }
Return ==
    /\ pc = "detect"
    /\ ci > Len(contours)
    /\ pc' = "done"
    /\ UNCHANGED <<width, height, data, binary, visited, contours, sx, sy, stack,
                   allPoints, boundaryPoints, ordered, remaining, current, ci,
                   frames, ret, shapes, fills>>

(***************************************************************************)
(* The methods as functions of the mask: what detectShapes returns for the *)
(* mask binary of a width x height image.                                  *)
(***************************************************************************)
\* the while loop of orderBoundaryPoints from its locals to its exit
RECURSIVE OrderLoop(_, _, _)
OrderLoop(ord, rem, cur) ==
    IF Len(rem) = 0 THEN ord
    ELSE LET k == Nearest(rem, cur)
         IN  IF k = 0 THEN ord
             ELSE OrderLoop(Append(ord, rem[k]), Delete(rem, k), rem[k])

orderBoundaryPoints(points, all) ==
    IF Len(points) = 0 THEN all
    ELSE LET ord == OrderLoop(<<points[1]>>, Tail(points), points[1])
         IN  IF Len(ord) > 0 THEN ord ELSE all

\* floodFill(binary, visited, startX, startY, width, height): the contour
\* returned and the visited mask it leaves
floodFill(vis, startX, startY) ==
    LET st == FillLoop([stack |-> <<Pt(startX, startY)>>, visited |-> vis,
                        allPoints |-> <<>>, boundaryPoints |-> <<>>],
                       8 * width * height + 1)
    IN  [visited |-> st.visited,
         contour |-> IF Len(st.boundaryPoints) > 0
                     THEN orderBoundaryPoints(st.boundaryPoints, st.allPoints)
                     ELSE st.allPoints]

\* the for loops of findContours from pixel index on
RECURSIVE findContoursFrom(_, _, _)
findContoursFrom(vis, index, found) ==
    IF index >= width * height THEN found
    ELSE IF binary[index] /\ ~vis[index]
    THEN LET fill == floodFill(vis, index % width, index \div width)
         IN  findContoursFrom(fill.visited, index + 1,
                              IF Len(fill.contour) > NoiseFloor
                              THEN Append(found, fill.contour)
                              ELSE found)
    ELSE findContoursFrom(vis, index + 1, found)

findContours ==
    findContoursFrom([index \in PixelIndexes(width, height) |-> FALSE], 0, <<>>)

RECURSIVE simplifyContour(_)
simplifyContour(contour) ==
    IF Len(contour) <= 2 THEN contour
    ELSE LET first == contour[1]
             last == contour[Len(contour)]
             scan == MaxDistScan(contour, 1, Len(contour), 2, 0, 1)
         IN  IF ExceedsEpsilon(scan[1], first, last)
             THEN Splice(simplifyContour(SubSeq(contour, 1, scan[2])),
                         simplifyContour(SubSeq(contour, scan[2], Len(contour))))
             ELSE <<first, last>>

\* the for loop of detectShapes from the i-th contour on
RECURSIVE detectLoop(_, _, _)
detectLoop(found, i, list) ==
    IF i > Len(found) THEN list
    ELSE IF Len(found[i]) < MinContour THEN detectLoop(found, i + 1, list)
    ELSE detectLoop(found, i + 1,
                    PushShape(list, simplifyContour(found[i]), found[i]))

detectShapes == detectLoop(findContours, 1, <<>>)

Next ==
    \/ Binarize
    \/ Scan
    \/ FloodFillStep
    \/ FloodFillEnd
    \/ OrderStep
    \/ OrderEnd
    \/ DetectStep
    \/ SimplifyStep
    \/ ClassifyStep
    \/ Return

Spec == Init /\ [][Next]_vars

\* the same call with each floodFill loop taken as one step
NextByCall ==
    \/ Binarize
    \/ FloodFillCall
    \/ FloodFillEnd
    \/ OrderStep
    \/ OrderEnd
    \/ DetectStep
    \/ SimplifyStep
    \/ ClassifyStep
    \/ Return

SpecByCall == Init /\ [][NextByCall]_vars

\* detectShapes on the small and the punched canvases, in both palettes
InitAlpha ==
    InitWith(SmallImages \cup PunchedImages(CanvasW + 1, CanvasH + 1), {Opaque, Edge})
SpecAlpha == InitAlpha /\ [][NextByCall]_vars

\* detectShapes on the gallery: notched and punched canvases, a filled disk
InitGallery == InitWith(GalleryImages, {Opaque})
SpecGallery == InitGallery /\ [][Next]_vars

\* detectShapes on one solid square in a light canvas
InitSquare == InitWith(SquareImages, {Opaque})
SpecSquare == InitSquare /\ [][NextByCall]_vars

\* detectShapes on two separated solid squares
InitTwoSquares == InitWith(TwoSquaresImages, {Opaque})
SpecTwoSquares == InitTwoSquares /\ [][NextByCall]_vars

\* detectShapes is one synchronous call: a step that can be taken is taken
InitFair == InitWith(SmallImages, {Opaque})
FairSpec == InitFair /\ [][Next]_vars /\ WF_vars(Next)

(***************************************************************************)
(* The methods called on their own: simplifyContour(contour, 2.0) on a     *)
(* contour of pairwise distinct points.  The rows 0, 2 and 3 put points    *)
(* below, at and above epsilon = 2.0 from a horizontal segment.            *)
(***************************************************************************)
PolyRows == {0, 2, 3}

PolyPoints == { Pt(2 * i, py) : i \in 0 .. PolyW, py \in PolyRows }

\* the sequences of n pairwise distinct points
RECURSIVE Polygons(_)
Polygons(n) ==
    IF n = 0 THEN { <<>> }
    ELSE UNION { { Append(c, p) : p \in PolyPoints \ { c[i] : i \in 1 .. Len(c) } } :
                 c \in Polygons(n - 1) }

\* the state outside the method called
InitOutside ==
    /\ width = 2 * PolyW + 1
    /\ height = 4
    /\ data = <<>>
    /\ binary = <<>>
    /\ visited = <<>>
    /\ sx = 0
    /\ sy = 0
    /\ stack = <<>>
    /\ allPoints = <<>>
    /\ boundaryPoints = <<>>
    /\ ordered = <<>>
    /\ remaining = <<>>
    /\ current = Pt(0, 0)
    /\ ci = 1
    /\ shapes = <<>>
    /\ fills = <<>>

InitSimplify ==
    /\ \E n \in 2 .. PolyLen : \E c \in Polygons(n) :
          /\ contours = <<c>>
          /\ frames = <<Frame(1, Len(c))>>
    /\ ret = <<>>
    /\ pc = "simplify"
    /\ InitOutside

NextSimplify == SimplifyStep

SpecSimplify == InitSimplify /\ [][NextSimplify]_vars

\* classifyShape(simplified, contour) in the for loop of detectShapes, on a
\* simplified polygon of pairwise distinct points that is its own contour,
\* of every number of vertices the triangle rule admits
InitClassify ==
    /\ \E n \in MinContour .. TriangleMax : \E c \in Polygons(n) :
          /\ contours = <<c>>
          /\ ret = c
    /\ frames = <<>>
    /\ pc = "simplify"
    /\ InitOutside

NextClassify ==
    \/ ClassifyStep
    \/ Return

SpecClassify == InitClassify /\ [][NextClassify]_vars

(***************************************************************************)
(* Vocabulary of the properties                                            *)
(***************************************************************************)
PointSet(seq) == { seq[i] : i \in 1 .. Len(seq) }

NoDuplicates(seq) == Cardinality(PointSet(seq)) = Len(seq)

\* the dark pixels of the mask, as points (the mask exists once pc # "start")
DarkPoints ==
    { Pt(i % width, i \div width) : i \in { j \in PixelIndexes(width, height) : binary[j] } }

\* findContours has returned
ScanOver == pc \in {"detect", "simplify", "done"}

\* the 8 neighbours of a point, in or out of the image
Around(p) ==
    { Pt(p.x + dx, p.y + dy) : dx \in {-1, 0, 1}, dy \in {-1, 0, 1} } \ {p}

\* the dark points 8-reachable from the points of S
RECURSIVE Reach8(_)
Reach8(S) ==
    LET grown == S \cup { q \in DarkPoints : \E p \in S : q \in Around(p) }
    IN  IF grown = S THEN S ELSE Reach8(grown)

\* the points of S with an 8-neighbour that is light or outside the image
BoundaryOf(S) == { p \in S : \E q \in Around(p) : q \notin DarkPoints }

\* the inclusive pixel extents of a non-empty set of points
BoxOf(S) ==
    LET xs == { p.x : p \in S }
        ys == { p.y : p \in S }
        x0 == CHOOSE v \in xs : \A u \in xs : v <= u
        x1 == CHOOSE v \in xs : \A u \in xs : v >= u
        y0 == CHOOSE v \in ys : \A u \in ys : v <= u
        y1 == CHOOSE v \in ys : \A u \in ys : v >= u
    IN  [x |-> x0, y |-> y0, width |-> x1 - x0 + 1, height |-> y1 - y0 + 1]

\* the image is light except for one 2 x 2 block of dark pixels
IsSpeckle2x2 ==
    \E p \in DarkPoints :
        DarkPoints = {p, Pt(p.x + 1, p.y), Pt(p.x, p.y + 1), Pt(p.x + 1, p.y + 1)}

\* the side of the solid dark square the image consists of, 0 when the dark
\* pixels are not one solid square clear of the image border
SolidSquareSide ==
    IF DarkPoints = {} THEN 0
    ELSE LET box == BoxOf(DarkPoints)
         IN  IF /\ box.width = box.height
                /\ Cardinality(DarkPoints) = box.width * box.height
                /\ box.x >= 1 /\ box.y >= 1
                /\ box.x + box.width <= width - 1
                /\ box.y + box.height <= height - 1
             THEN box.width
             ELSE 0

(***************************************************************************)
(* C1  Noise floor: a component whose full pixel set has 10 or fewer       *)
(* pixels contributes no contour and hence no shape (every shape comes     *)
(* from an emitted contour); an image that is one 2 x 2 speckle yields no  *)
(* shape at all.                                                           *)
(***************************************************************************)
C1_NoiseFloor ==
    /\ \A i \in 1 .. Len(fills) :
          Len(fills[i]) <= 10 =>
             \A j \in 1 .. Len(contours) :
                PointSet(contours[j]) \cap PointSet(fills[i]) = {}
    /\ \A k \in 1 .. Len(shapes) :
          \E j \in 1 .. Len(contours) :
             /\ j <= ci
             /\ shapes[k].boundingBox = BoxOf(PointSet(contours[j]))
    /\ Len(shapes) <= Len(contours)
    /\ (pc = "done" /\ IsSpeckle2x2) => shapes = <<>>

C1_Witness ==
    /\ pc = "done"
    /\ IsSpeckle2x2
    /\ Len(fills) = 1
    /\ Len(fills[1]) = 4
    /\ shapes = <<>>

(***************************************************************************)
(* C2  Area bounds: every returned shape has 0 <= area <= imageWidth *     *)
(* imageHeight (area2 is twice the area).                                  *)
(***************************************************************************)
C2_AreaBounds ==
    \A k \in 1 .. Len(shapes) :
        /\ shapes[k].area2 >= 0
        /\ shapes[k].area2 <= 2 * width * height

(***************************************************************************)
(* C3  Bounding-box containment: every returned shape has boundingBox      *)
(* width >= 1 and height >= 1 and its center inside the box, x <= center.x *)
(* <= x + width and y <= center.y <= y + height (center2 is twice the      *)
(* centre).                                                                *)
(***************************************************************************)
C3_CenterInBox ==
    \A k \in 1 .. Len(shapes) :
        LET b == shapes[k].boundingBox
            c == shapes[k].center2
        IN  /\ b.width >= 1
            /\ b.height >= 1
            /\ 2 * b.x <= c.x /\ c.x <= 2 * (b.x + b.width)
            /\ 2 * b.y <= c.y /\ c.y <= 2 * (b.y + b.height)

C3_Witness ==
    /\ pc = "done"
    /\ \E k \in 1 .. Len(shapes) :
          /\ shapes[k].boundingBox.width >= 2
          /\ shapes[k].boundingBox.width # shapes[k].boundingBox.height

(***************************************************************************)
(* C4  Confidence bounds: every returned shape has 0 <= confidence <= 1    *)
(* (confidenceMilli is in thousandths), whichever rule produced it.        *)
(***************************************************************************)
C4_ConfidenceBounds ==
    \A k \in 1 .. Len(shapes) :
        /\ shapes[k].confidenceMilli >= 0
        /\ shapes[k].confidenceMilli <= 1000

\* a circle, whose confidence is computed from the circularity
C4_Witness ==
    /\ pc = "done"
    /\ \E k \in 1 .. Len(shapes) :
          /\ shapes[k].type = "circle"
          /\ shapes[k].confidenceMilli > 900

(***************************************************************************)
(* C5  Single filled square: an image that is one solid S x S square,      *)
(* S >= 20, clear of the border, yields exactly one shape, a rectangle,    *)
(* with boundingBox width and height within 2 of S.                        *)
(***************************************************************************)
C5_SingleSquare ==
    (pc = "done" /\ SolidSquareSide >= 20) =>
        /\ Len(shapes) = 1
        /\ shapes[1].type = "rectangle"
        /\ Abs(shapes[1].boundingBox.width - SolidSquareSide) <= 2
        /\ Abs(shapes[1].boundingBox.height - SolidSquareSide) <= 2

C5_Witness ==
    /\ pc = "done"
    /\ SolidSquareSide >= 20
    /\ Len(shapes) = 1
    /\ shapes[1].type = "rectangle"

(***************************************************************************)
(* C6  Disjoint shapes counted independently: two solid squares of side    *)
(* >= 20 that are not 8-connected yield exactly two shapes, both           *)
(* rectangles, one per square.                                             *)
(***************************************************************************)
\* the image is two components, each a solid square of side >= 20
TwoSolidSquares ==
    /\ Len(fills) = 2
    /\ \A i \in 1 .. 2 :
          LET box == BoxOf(PointSet(fills[i]))
          IN  /\ box.width = box.height
              /\ box.width >= 20
              /\ Len(fills[i]) = box.width * box.height

C6_TwoSquares ==
    (pc = "done" /\ TwoSolidSquares) =>
        /\ Len(shapes) = 2
        /\ shapes[1].type = "rectangle"
        /\ shapes[2].type = "rectangle"
        /\ shapes[1].boundingBox = BoxOf(PointSet(fills[1]))
        /\ shapes[2].boundingBox = BoxOf(PointSet(fills[2]))
        /\ shapes[1].boundingBox # shapes[2].boundingBox

C6_Witness ==
    /\ pc = "done"
    /\ TwoSolidSquares
    /\ Len(shapes) = 2
    /\ shapes[1].boundingBox # shapes[2].boundingBox

(***************************************************************************)
(* C7  Termination: detectShapes runs to completion on every well-formed   *)
(* input, and every recursive call of simplifyContour is on a strictly     *)
(* shorter sequence than its caller's.                                     *)
(***************************************************************************)
FramesShrink ==
    \A d \in 2 .. Len(frames) :
        frames[d].hi - frames[d].lo < frames[d - 1].hi - frames[d - 1].lo

C7_Terminates == []FramesShrink /\ <>(pc = "done")

\* the second recursive call of a split is running
C7_Witness ==
    /\ Len(frames) >= 2
    /\ frames[2].lo > frames[1].lo

(***************************************************************************)
(* C8  As claimed: every component whose full pixel set has more than 10   *)
(* pixels is emitted by findContours as a contour.                         *)
(***************************************************************************)
C8_FullPixelSet ==
    ScanOver =>
        \A i \in 1 .. Len(fills) :
            Len(fills[i]) > 10 =>
                \E j \in 1 .. Len(contours) :
                    PointSet(contours[j]) \subseteq PointSet(fills[i])

(***************************************************************************)
(* C8  As amended: the filter is the sole discard criterion and is applied *)
(* to the boundary contour: a component is emitted exactly when it has     *)
(* more than 10 boundary pixels, and nothing else is emitted.              *)
(***************************************************************************)
C8_BoundarySet ==
    ScanOver =>
        /\ \A i \in 1 .. Len(fills) :
              Cardinality(BoundaryOf(PointSet(fills[i]))) > 10 <=>
                 \E j \in 1 .. Len(contours) :
                    PointSet(contours[j]) = BoundaryOf(PointSet(fills[i]))
        /\ Len(contours) =
              Cardinality({ i \in 1 .. Len(fills) :
                              Cardinality(BoundaryOf(PointSet(fills[i]))) > 10 })

\* a component of 11 pixels is emitted, all of them on the boundary
C8_Witness ==
    /\ ScanOver
    /\ Len(fills) = 1
    /\ Len(fills[1]) = 11
    /\ Len(contours) = 1
    /\ Len(contours[1]) = 11

(***************************************************************************)
(* C9  Component partition: no light pixel is ever marked visited; the     *)
(* pixel sets collected by the floodFill calls are pairwise disjoint, each *)
(* without repetition, and each is exactly the set of dark pixels          *)
(* 8-reachable from its seed; once the scan is over they cover every dark  *)
(* pixel, and every dark pixel is marked visited.                          *)
(***************************************************************************)
C9_Partition ==
    pc # "start" =>
        /\ \A i \in PixelIndexes(width, height) : visited[i] => binary[i]
        /\ \A i \in 1 .. Len(fills) :
              /\ NoDuplicates(fills[i])
              /\ PointSet(fills[i]) = Reach8({fills[i][1]})
              /\ \A j \in 1 .. Len(fills) :
                    i # j => PointSet(fills[i]) \cap PointSet(fills[j]) = {}
        /\ ScanOver =>
              /\ UNION { PointSet(fills[i]) : i \in 1 .. Len(fills) } = DarkPoints
              /\ \A i \in PixelIndexes(width, height) : binary[i] => visited[i]

\* the scan is over and has found two components
C9_Witness ==
    /\ pc = "done"
    /\ Len(fills) = 2
    /\ Len(fills[1]) >= 2
    /\ \A i \in PixelIndexes(width, height) : binary[i] <=> visited[i]

(***************************************************************************)
(* C10  The contour is a permutation of the boundary set: in               *)
(* orderBoundaryPoints, boundaryPoints is exactly the set of boundary      *)
(* pixels of the component, each once, and ordered followed by remaining   *)
(* is a permutation of it; every iteration moves one pixel from remaining  *)
(* to ordered, and the loop is left only with remaining empty.             *)
(***************************************************************************)
OrderInvariant ==
    pc = "order" =>
        /\ PointSet(boundaryPoints) = BoundaryOf(PointSet(allPoints))
        /\ NoDuplicates(boundaryPoints)
        /\ NoDuplicates(ordered \o remaining)
        /\ PointSet(ordered \o remaining) = PointSet(boundaryPoints)

OrderIteration ==
    (pc = "order" /\ pc' = "order") =>
        /\ Len(remaining') = Len(remaining) - 1
        /\ Len(ordered') = Len(ordered) + 1
        /\ ordered'[Len(ordered')] \in PointSet(remaining)

OrderExit == (pc = "order" /\ pc' # "order") => remaining = <<>>

C10_ContourPermutation ==
    /\ []OrderInvariant
    /\ [][OrderIteration]_vars
    /\ [][OrderExit]_vars

\* the loop is over for a contour that passes the noise filter
C10_Witness ==
    /\ pc = "order"
    /\ remaining = <<>>
    /\ Len(ordered) > 10

(***************************************************************************)
(* C11  Douglas-Peucker postcondition: on a contour of two or more         *)
(* pairwise distinct points simplifyContour(contour, 2.0) returns a        *)
(* subsequence of the contour in contour order (hence without a repeated   *)
(* point) that starts with its first and ends with its last point; every   *)
(* dropped point is within 2.0 of the segment joining the kept points next *)
(* before and after it; a contour of length <= 2 is returned unchanged.    *)
(***************************************************************************)
\* the index of point p in the sequence c of distinct points
IndexIn(c, p) == CHOOSE i \in 1 .. Len(c) : c[i] = p

\* p is at distance <= 2 from the segment from a to b (a # b), squared
WithinTwo(p, a, b) ==
    LET ux == b.x - a.x
        uy == b.y - a.y
        along == (p.x - a.x) * ux + (p.y - a.y) * uy
        cross == (p.x - a.x) * uy - (p.y - a.y) * ux
    IN  IF along <= 0 THEN DistSq(p, a) <= 4
        ELSE IF along >= ux * ux + uy * uy THEN DistSq(p, b) <= 4
        ELSE cross * cross <= 4 * (ux * ux + uy * uy)

\* the outermost call of simplifyContour has returned
SimplifyReturned == pc = "simplify" /\ frames = <<>>

C11_Postcondition ==
    SimplifyReturned =>
        LET c == contours[ci]
        IN  /\ Len(c) <= 2 => ret = c
            /\ Len(ret) >= 2
            /\ ret[1] = c[1]
            /\ ret[Len(ret)] = c[Len(c)]
            /\ \A k \in 1 .. Len(ret) : ret[k] \in PointSet(c)
            /\ \A k \in 1 .. Len(ret) - 1 :
                  IndexIn(c, ret[k]) < IndexIn(c, ret[k + 1])
            /\ \A i \in 1 .. Len(c) :
                  c[i] \notin PointSet(ret) =>
                     \E k \in 1 .. Len(ret) - 1 :
                        /\ IndexIn(c, ret[k]) < i
                        /\ i < IndexIn(c, ret[k + 1])
                        /\ WithinTwo(c[i], ret[k], ret[k + 1])

\* a call that split the contour, kept the split point and dropped a point
C11_Witness ==
    /\ SimplifyReturned
    /\ Len(contours[ci]) = 4
    /\ Len(ret) = 3

(***************************************************************************)
(* C12  First-match decision tree: for a simplified polygon of n >= 3      *)
(* vertices the iteration of detectShapes adds the shape of the first of   *)
(* the rules (1) circle, (2) triangle, (3) rectangle, (4) pentagon,        *)
(* (5) star with confidence 0.8, (6) pentagon with confidence 0.75 whose   *)
(* condition holds, and adds no shape when none does (7).                  *)
(***************************************************************************)
RuleMatches(k, simplified, contour) ==
    LET n == Len(simplified)
    IN  CASE k = 1 -> /\ circularityMilli(calculateArea2(contour),
                                          calculatePerimeterCenti(simplified)) > 850
                      /\ n >= 8
          [] k = 2 -> n = 3 \/ (n \in 3 .. 5 /\ isTriangle(simplified))
          [] k = 3 -> n = 4 \/ (n \in 4 .. 6 /\ isRectangle(simplified))
          [] k = 4 -> n = 5 \/ (n \in 5 .. 7 /\ isPentagon(simplified))
          [] k = 5 -> n \in 8 .. 12 /\ isStar(simplified)
          [] k = 6 -> n \in 6 .. 8
          [] k = 7 -> TRUE

FirstRule(simplified, contour) ==
    CHOOSE k \in 1 .. 7 :
        /\ RuleMatches(k, simplified, contour)
        /\ \A j \in 1 .. (k - 1) : ~RuleMatches(j, simplified, contour)

RuleType == <<"circle", "triangle", "rectangle", "pentagon", "star", "pentagon", "none">>

FirstMatchStep ==
    (SimplifyReturned /\ Len(ret) >= 3 /\ pc' = "detect") =>
        LET k == FirstRule(ret, contours[ci])
        IN  IF k = 7 THEN shapes' = shapes
            ELSE /\ Len(shapes') = Len(shapes) + 1
                 /\ SubSeq(shapes', 1, Len(shapes)) = shapes
                 /\ shapes'[Len(shapes')].type = RuleType[k]
                 /\ k = 5 => shapes'[Len(shapes')].confidenceMilli = 800
                 /\ k = 6 => shapes'[Len(shapes')].confidenceMilli = 750

C12_FirstMatch == [][FirstMatchStep]_vars

\* a polygon of 5 or 6 vertices has just been labelled by the rectangle
\* rule, ahead of the pentagon rules
C12_Witness ==
    /\ pc = "detect"
    /\ ci > 1
    /\ Len(shapes) >= 1
    /\ shapes[Len(shapes)].type = "rectangle"
    /\ shapes[Len(shapes)].confidenceMilli = 800

(***************************************************************************)
(* C13  Binarization ignores alpha: a pixel is dark exactly when           *)
(* R + G + B < 384, whatever its alpha byte; the mask is the same for the  *)
(* buffer with any other alpha bytes, and the shapes returned are those    *)
(* the mask and the dimensions determine, so buffers that differ only in   *)
(* alpha give the same shapes.                                             *)
(***************************************************************************)
AlphaValues == {0, 128, 255}

\* the buffer d with every alpha byte set to a
WithAlpha(d, a) == [i \in DOMAIN d |-> IF i % 4 = 3 THEN a ELSE d[i]]

C13_AlphaIgnored ==
    pc # "start" =>
        /\ \A i \in PixelIndexes(width, height) :
              binary[i] <=> data[4 * i] + data[4 * i + 1] + data[4 * i + 2] < 384
        /\ \A a \in AlphaValues :
              createBinaryImage(WithAlpha(data, a), width, height) = binary
        /\ pc = "done" => shapes = detectShapes

\* a shape is returned for a component of fully transparent dark pixels
C13_Witness ==
    /\ pc = "done"
    /\ shapes # <<>>
    /\ \A i \in PixelIndexes(width, height) : binary[i] => data[4 * i + 3] = 0

(***************************************************************************)
(* C14  Triangles have three vertices: a shape added with type "triangle"  *)
(* comes from a simplified polygon of exactly 3 vertices and has           *)
(* confidence 0.95; a polygon of 4 vertices is always added as a rectangle *)
(* with confidence 0.98, and a polygon of 5 or more vertices is never      *)
(* added as a triangle, so no triangle has confidence 0.75.                *)
(***************************************************************************)
TriangleStep ==
    (SimplifyReturned /\ Len(ret) >= 3 /\ pc' = "detect") =>
        LET n == Len(ret)
            added == Len(shapes') = Len(shapes) + 1
            shape == shapes'[Len(shapes')]
        IN  /\ Len(shapes') \in {Len(shapes), Len(shapes) + 1}
            /\ (added /\ shape.type = "triangle") =>
                  (n = 3 /\ shape.confidenceMilli = 950)
            /\ n = 4 => /\ added
                        /\ shape.type = "rectangle"
                        /\ shape.confidenceMilli = 980

C14_TriangleVertices == [][TriangleStep]_vars

\* a polygon of 4 vertices whose angles all pass the triangle test has been
\* added as a rectangle
C14_Witness ==
    /\ pc = "done"
    /\ Len(contours[1]) = 4
    /\ \A i \in 1 .. 4 :
          /\ calculateAngles(contours[1])[i] >= 20
          /\ calculateAngles(contours[1])[i] < 160
    /\ Len(shapes) = 1
    /\ shapes[1].type = "rectangle"

=============================================================================
